---- MODULE Spec2Model ----
(***************************************************************************)
(* ore-cli: the freshness cache (Miner::latest_blockhash and the           *)
(* poll_latest_blockhash task of main.rs), the command handlers            *)
(* Miner::claim / Miner::initialize_ata (claim.rs) and Miner::register     *)
(* (register.rs), and the transaction submitter they call                  *)
(* (Miner::send_and_confirm, module send_and_confirm, whose source lies    *)
(* outside these files and is modelled from spec.md section 4.4).          *)
(***************************************************************************)
EXTENDS Integers, Sequences, FiniteSets, TLC

\* ------------------------------------------------------------------ bounds
\* The node's block height runs from 1 to MaxHeight.
MaxHeight == 3
\* A token fetched at height h is valid for Validity further blocks.
Validity == 0
\* Claimable balances and priority fees are drawn from 0..MaxBalance, 0..MaxFee.
MaxBalance == 1
MaxFee == 1
\* The submitter's budgets (spec.md 4.4 leaves the numbers open).
RetryBudget == 2
MaxPolls == 2
\* The count of consecutive refresh failures saturates here.
MaxFailures == 2
\* The number of bus accounts (the length of ore::BUS_ADDRESSES).
NumBuses == 3

\* ------------------------------------------------------- program constants
\* ore::TOKEN_DECIMALS (claim.rs:10); cu_limits::CU_LIMIT_CLAIM (claim.rs:19),
\* whose defining module is not among the files: the number stands for it.
TOKEN_DECIMALS == 9
CU_LIMIT_CLAIM == 11000

VARIABLES
    \* the remote ledger node
    height,            \* current block height
    proofExists,       \* the identity's proof account exists
    ataExists,         \* the identity's associated token account exists
    claimable,         \* proof.claimable_rewards on the ledger
    \* the context (main.rs:29-36)
    priority_fee,      \* Miner.priority_fee
    cmd,               \* args.command
    \* the freshness cache: Arc<Mutex<(Hash, u64)>>
    latest_blockhash,  \* the value behind the mutex
    mutex,             \* who holds the mutex: "free" | "poll"
    \* the poll_latest_blockhash task
    poll_pc,           \* "off" | "sleep" | "fetch" | "fetched" | "locked"
    poll_blockhash,    \* its local `blockhash`
    failures,          \* consecutive failed refresh fetches (saturating)
    lastFetchedOk,     \* the last token a fetch of Miner::new or of the loop returned
    fetched,           \* every token any fetch from the node has returned
    \* the main task
    pc,                \* position of main and of the running command handler
    amount,            \* claim's local `amount`
    stdout,            \* the messages printed so far (as a set)
    \* the running send_and_confirm call
    sub_state,         \* "Idle" | "Built" | "Signed" | "Sent" | "Confirmed" | ...
    caller,            \* which call site invoked it
    tx_ixs,            \* the transaction's instructions
    tx_token,          \* the freshness token the transaction is signed with
    prev_token,        \* the token of the attempt that expired last (Unset: none)
    attempts,          \* attempts begun by this call
    sends,             \* transactions this call handed to the node
    polls,             \* confirmation polls left for this attempt
    acked,             \* the node accepted the sent transaction for inclusion
    outcome,           \* the SubmissionOutcome of the last finished call
    sentLog,           \* every transaction handed to the node, in order
    \* the handlers' reads
    last_read,         \* what the account read the handler is acting on returned
    beneficiary,       \* claim's local `beneficiary`
    bus_idx,           \* busses: index of the next address of BUS_ADDRESSES
    busSeen,           \* busses: whether each account read so far decoded
    busOut             \* busses: the ids of the "Bus {}: {} ORE" lines printed

vars == << height, proofExists, ataExists, claimable, priority_fee, cmd,
           latest_blockhash, mutex, poll_pc, poll_blockhash, failures,
           lastFetchedOk, fetched, pc, amount, stdout, sub_state, caller,
           tx_ixs, tx_token, prev_token, attempts, sends, polls, acked,
           outcome, sentLog, last_read, beneficiary, bus_idx, busSeen,
           busOut >>

busVars == << bus_idx, busSeen, busOut >>
auxVars == << last_read, beneficiary, bus_idx, busSeen, busOut >>
ledgerVars == << proofExists, ataExists, claimable >>
ctxVars == << priority_fee, cmd >>
pollVars == << poll_pc, poll_blockhash, failures >>
mainVars == << pc, amount, stdout >>
subVars == << sub_state, caller, tx_ixs, tx_token, prev_token, attempts,
              sends, polls, acked, outcome, sentLog >>

\* ------------------------------------------------------------------ tokens
\* (Hash, u64): a blockhash and its last valid block height.
Token(h, u) == [hash |-> h, until |-> u]

\* No token: what a cache that was never filled would hold (Hash::default(), 0).
Unset == Token(0, 0)

\* get_latest_blockhash_with_commitment answered by the node at height h.
NodeToken(h) == Token(h, h + Validity)

\* The node no longer accepts a transaction signed with token t.
IsExpired(t) == height > t.until

Commands == {"claim", "mine", "busses"}

\* main has returned (or panicked): the process, and with it the runtime's
\* tasks, is gone.
Exited == pc \in {"init_failed", "failed", "panicked", "done"}

Min(a, b) == IF a < b THEN a ELSE b

\* ----------------------------------------------------------------- startup
\* The state when main starts. Only claim reads the token account and the
\* claimable balance, and busses reads neither the fee nor the proof account:
\* what a command never reads is left at one value.
Init ==
    /\ height = 1
    /\ cmd \in Commands
    /\ priority_fee \in IF cmd = "busses" THEN {0} ELSE 0..MaxFee
    /\ proofExists \in IF cmd = "busses" THEN {FALSE} ELSE BOOLEAN
    /\ ataExists \in IF cmd = "claim" THEN BOOLEAN ELSE {FALSE}
    /\ claimable \in IF cmd = "claim" THEN 0..MaxBalance ELSE {0}
    /\ latest_blockhash = Unset
    /\ mutex = "free"
    /\ poll_pc = "off"
    /\ poll_blockhash = Unset
    /\ failures = 0
    /\ lastFetchedOk = Unset
    /\ fetched = {}
    /\ pc = "start"
    /\ amount = 0
    /\ stdout = {}
    /\ sub_state = "Idle"
    /\ caller = "none"
    /\ tx_ixs = << >>
    /\ tx_token = Unset
    /\ prev_token = Unset
    /\ attempts = 0
    /\ sends = 0
    /\ polls = 0
    /\ acked = FALSE
    /\ outcome = "none"
    /\ sentLog = << >>
    /\ last_read = "none"
    /\ beneficiary = "none"
    /\ bus_idx = 1
    /\ busSeen = << >>
    /\ busOut = << >>

\* The ledger produces a block (followed for the life of the process).
Tick ==
    /\ ~Exited
    /\ height < MaxHeight
    /\ height' = height + 1
    /\ UNCHANGED << auxVars, ledgerVars, ctxVars, latest_blockhash, mutex,
                    pollVars, lastFetchedOk, fetched, mainVars, subVars >>

\* Miner::new, line 234: the mutex is created around the fetched blockhash.
NewCacheBroken(blockhash) == Unset
NewCache(blockhash) == blockhash

\* main.rs:188-219: the handler of the selected command.
Dispatch(c) ==
    CASE c = "claim" -> "claim"
      [] c = "mine" -> "register"
      [] c = "busses" -> "busses"

\* main.rs:181: `Miner::new(..).await?` on Err returns from main.
OnNewErrIgnored(c) == Dispatch(c)
OnNewErr(c) == "init_failed"

\* Miner::new, the initial fetch answered: the cache is created and main
\* spawns poll_latest_blockhash (main.rs:181-185).
NewOk ==
    /\ pc = "start"
    /\ latest_blockhash' = NewCache(NodeToken(height))
    /\ lastFetchedOk' = NodeToken(height)
    /\ fetched' = fetched \cup {NodeToken(height)}
    /\ poll_pc' = "sleep"
    /\ pc' = Dispatch(cmd)
    /\ UNCHANGED << auxVars, height, ledgerVars, ctxVars, mutex, poll_blockhash,
                    failures, amount, stdout, subVars >>

\* Miner::new, the initial fetch failed: `.await?` returns the error from
\* Miner::new and from main.
NewErr ==
    /\ pc = "start"
    /\ pc' = OnNewErr(cmd)
    /\ UNCHANGED << auxVars, height, ledgerVars, ctxVars, latest_blockhash, mutex,
                    pollVars, lastFetchedOk, fetched, amount, stdout, subVars >>

\* Miner::get_latest_blockhash: lock, copy out, unlock. It needs the mutex.
CanReadUnlocked == TRUE
CanRead == mutex = "free"
get_latest_blockhash == latest_blockhash

\* main.rs:255: `*lock` copies the pair out; the cache is left as it was.
AfterReadCleared(cache) == Unset
AfterRead(cache) == cache

\* ------------------------------------------------- poll_latest_blockhash
\* tokio::time::sleep(10 s) elapsed.
PollWake ==
    /\ ~Exited
    /\ poll_pc = "sleep"
    /\ poll_pc' = "fetch"
    /\ UNCHANGED << auxVars, height, ledgerVars, ctxVars, latest_blockhash, mutex,
                    poll_blockhash, failures, lastFetchedOk, fetched,
                    mainVars, subVars >>

\* The fetch returned Ok(blockhash).
PollFetchOk ==
    /\ ~Exited
    /\ poll_pc = "fetch"
    /\ poll_blockhash' = NodeToken(height)
    /\ lastFetchedOk' = NodeToken(height)
    /\ fetched' = fetched \cup {NodeToken(height)}
    /\ failures' = 0
    /\ poll_pc' = "fetched"
    /\ UNCHANGED << auxVars, height, ledgerVars, ctxVars, latest_blockhash, mutex,
                    mainVars, subVars >>

\* The Err(e) arm: print and `continue`; the cache is not touched.
OnFetchErrorBroken(cache) == Unset
OnFetchError(cache) == cache

\* main.rs:271-274: after the message, `continue` goes back to the sleep at
\* the top of the loop.
AfterFetchErrStopped == "off"
AfterFetchErr == "sleep"

\* The fetch returned Err(e).
PollFetchErr ==
    /\ ~Exited
    /\ poll_pc = "fetch"
    /\ latest_blockhash' = OnFetchError(latest_blockhash)
    /\ failures' = Min(failures + 1, MaxFailures)
    /\ stdout' = stdout \cup {"Failed to fetch latest blockhash"}
    /\ poll_pc' = AfterFetchErr
    /\ UNCHANGED << auxVars, height, ledgerVars, ctxVars, mutex, poll_blockhash,
                    lastFetchedOk, fetched, pc, amount, subVars >>

\* `*lock = blockhash` copies a (Hash, u64) pair, which is not one machine
\* store: the pair with one of its two fields already overwritten.
HalfStored(old, new) ==
    { Token(new.hash, old.until), Token(old.hash, new.until) }

\* latest_blockhash.lock().unwrap(), and the store under way.
PollLock ==
    /\ ~Exited
    /\ poll_pc = "fetched"
    /\ mutex = "free"
    /\ mutex' = "poll"
    /\ latest_blockhash' \in HalfStored(latest_blockhash, poll_blockhash)
    /\ poll_pc' = "locked"
    /\ UNCHANGED << auxVars, height, ledgerVars, ctxVars,
                    poll_blockhash, failures, lastFetchedOk, fetched,
                    mainVars, subVars >>

\* main.rs:279: the MutexGuard goes out of scope at the end of the loop body,
\* before the next sleep.
GuardKept == "poll"
GuardDropped == "free"

\* *lock = blockhash completed; the guard is dropped at the end of the loop
\* body.
PollPublish ==
    /\ ~Exited
    /\ poll_pc = "locked"
    /\ latest_blockhash' = poll_blockhash
    /\ mutex' = GuardDropped
    /\ poll_pc' = "sleep"
    /\ UNCHANGED << auxVars, height, ledgerVars, ctxVars, poll_blockhash, failures,
                    lastFetchedOk, fetched, mainVars, subVars >>

\* ------------------------------------------------------------ instructions
\* An instruction descriptor: the operation and its one parameter.
Ix(op, arg) == [op |-> op, arg |-> arg]

\* ComputeBudgetInstruction::set_compute_unit_limit / set_compute_unit_price.
CuLimitIx(units) == Ix("set_compute_unit_limit", units)
CuPriceIx(fee) == Ix("set_compute_unit_price", fee)

\* ore::instruction::register(signer), carrying no amount.
RegisterIx == Ix("register", 0)

\* create_associated_token_account(signer, signer, MINT_ADDRESS, spl_token::id()).
CreateAtaIx == Ix("create_associated_token_account", 0)

\* The instruction of a found solution (the mining loop is an external producer).
MineIx == Ix("mine", 0)

\* claim.rs:10, the display value: amount as f64 / 10^TOKEN_DECIMALS, kept as
\* its whole part; the division of a u64 by a positive power is never negative.
Amountf(a) == a \div (10 ^ TOKEN_DECIMALS)

\* claim.rs:21: ore::instruction::claim(signer, beneficiary, amount).
ClaimIxScaled(a) == Ix("claim", Amountf(a))
ClaimIx(a) == Ix("claim", a)

\* What the node answers to a read of an account that exists or does not:
\* the account, NotFound, or a Transport error (spec.md section 6).
AccountRead(exists) ==
    IF exists THEN {"Ok", "Transport"} ELSE {"NotFound", "Transport"}

\* -------------------------------------------------------- send_and_confirm
\* spec.md 4.4 step 1: the compute-unit ceiling the submitter prepends; the
\* value is left open there.
CU_LIMIT_SUBMIT == 200000

\* Step 1: prepend the two fee-control instructions.
Build(ixs) == << CuLimitIx(CU_LIMIT_SUBMIT), CuPriceIx(priority_fee) >> \o ixs

\* A call of send_and_confirm(ixs, ..) from call site `site`: a new
\* PendingTransaction in state Built.
Call(ixs, site) ==
    /\ sub_state' = "Built"
    /\ caller' = site
    /\ tx_ixs' = Build(ixs)
    /\ tx_token' = Unset
    /\ prev_token' = Unset
    /\ attempts' = 0
    /\ sends' = 0
    /\ polls' = 0
    /\ acked' = FALSE
    /\ outcome' = "none"
    /\ pc' = "in_submit"
    /\ UNCHANGED sentLog

\* Step 2: read the token from the cache, attach it, sign.
SubmitSign ==
    /\ sub_state = "Built"
    /\ CanRead
    /\ tx_token' = get_latest_blockhash
    /\ latest_blockhash' = AfterRead(latest_blockhash)
    /\ attempts' = 1
    /\ sub_state' = "Signed"
    /\ UNCHANGED << auxVars, height, ledgerVars, ctxVars, mutex,
                    pollVars, lastFetchedOk, fetched, mainVars, caller, tx_ixs,
                    prev_token, sends, polls, acked, outcome, sentLog >>

\* Step 3: the signed transaction is handed to the node.
SubmitSend ==
    /\ sub_state = "Signed"
    /\ sub_state' = "Sent"
    /\ sends' = sends + 1
    /\ acked' = FALSE
    /\ sentLog' = Append(sentLog, [site |-> caller, ixs |-> tx_ixs])
    /\ UNCHANGED << auxVars, height, ledgerVars, ctxVars, latest_blockhash, mutex,
                    pollVars, lastFetchedOk, fetched, mainVars, caller, tx_ixs,
                    tx_token, prev_token, attempts, polls, outcome >>

\* Step 3, the node's answer to a send: where a send-time rejection leads.
AfterRejectRetry == "Signed"
AfterReject == "Rejected"

\* The node rejects at send time.
SubmitRejected ==
    /\ sub_state = "Sent"
    /\ ~acked
    /\ sub_state' = AfterReject
    /\ UNCHANGED << auxVars, height, ledgerVars, ctxVars, latest_blockhash, mutex,
                    pollVars, lastFetchedOk, fetched, mainVars, caller, tx_ixs,
                    tx_token, prev_token, attempts, sends, polls, acked,
                    outcome, sentLog >>

\* The node accepts the transaction for inclusion: polling starts (step 4).
SubmitAccepted ==
    /\ sub_state = "Sent"
    /\ ~acked
    /\ acked' = TRUE
    /\ polls' = MaxPolls
    /\ UNCHANGED << auxVars, height, ledgerVars, ctxVars, latest_blockhash, mutex,
                    pollVars, lastFetchedOk, fetched, mainVars, sub_state,
                    caller, tx_ixs, tx_token, prev_token, attempts, sends,
                    outcome, sentLog >>

\* The effect of a confirmed transaction on the ledger.
HasOp(ixs, op) == \E i \in 1..Len(ixs) : ixs[i].op = op

\* Step 4, a poll answered "confirmed": the node included the transaction
\* while its token was valid.
SubmitPollConfirmed ==
    /\ sub_state = "Sent"
    /\ acked
    /\ polls > 0
    /\ ~IsExpired(tx_token)
    /\ sub_state' = "Confirmed"
    /\ proofExists' = (proofExists \/ HasOp(tx_ixs, "register"))
    /\ ataExists' = (ataExists \/ HasOp(tx_ixs, "create_associated_token_account"))
    /\ claimable' = IF HasOp(tx_ixs, "claim") /\ amount <= claimable
                    THEN claimable - amount ELSE claimable
    /\ UNCHANGED << auxVars, height, ctxVars, latest_blockhash, mutex, pollVars,
                    lastFetchedOk, fetched, mainVars, caller, tx_ixs, tx_token,
                    prev_token, attempts, sends, polls, acked, outcome,
                    sentLog >>

\* Step 4, a poll finds the token's validity window elapsed.
SubmitPollExpired ==
    /\ sub_state = "Sent"
    /\ acked
    /\ polls > 0
    /\ IsExpired(tx_token)
    /\ sub_state' = "Expired"
    /\ UNCHANGED << auxVars, height, ledgerVars, ctxVars, latest_blockhash, mutex,
                    pollVars, lastFetchedOk, fetched, mainVars, caller, tx_ixs,
                    tx_token, prev_token, attempts, sends, polls, acked,
                    outcome, sentLog >>

\* Step 4: where the last unanswered poll leads.
AfterPollsRetry == "Expired"
AfterPolls == "TimedOut"

\* Step 4, a poll answered "pending" with the token still valid; the last
\* one ends the call with TimedOut.
SubmitPollPending ==
    /\ sub_state = "Sent"
    /\ acked
    /\ polls > 0
    /\ ~IsExpired(tx_token)
    /\ polls' = polls - 1
    /\ sub_state' = IF polls = 1 THEN AfterPolls ELSE "Sent"
    /\ UNCHANGED << auxVars, height, ledgerVars, ctxVars, latest_blockhash, mutex,
                    pollVars, lastFetchedOk, fetched, mainVars, caller, tx_ixs,
                    tx_token, prev_token, attempts, sends, acked, outcome,
                    sentLog >>

\* Step 4, expiry: the cached token serves only if it is past the expired
\* one; otherwise the token of a synchronous fetch is used.
CacheIsPast(cached, expired) == cached.until > expired.until
RetryTokenStale(cached, expired, forced) == cached
RetryToken(cached, expired, forced) ==
    IF CacheIsPast(cached, expired) THEN cached ELSE forced

\* Whether another attempt may start after `n` attempts.
BudgetRemainsAlways(n) == n < RetryBudget + 1
BudgetRemains(n) == n < RetryBudget

\* Step 4, expiry with budget left: a fresh token, re-sign, back to Signed.
SubmitRetry ==
    /\ sub_state = "Expired"
    /\ BudgetRemains(attempts)
    /\ CanRead
    /\ tx_token' = RetryToken(get_latest_blockhash, tx_token, NodeToken(height))
    /\ fetched' = IF CacheIsPast(get_latest_blockhash, tx_token)
                  THEN fetched ELSE fetched \cup {NodeToken(height)}
    /\ latest_blockhash' = AfterRead(latest_blockhash)
    /\ prev_token' = tx_token
    /\ attempts' = attempts + 1
    /\ sub_state' = "Signed"
    /\ UNCHANGED << auxVars, height, ledgerVars, ctxVars, mutex,
                    pollVars, lastFetchedOk, mainVars, caller, tx_ixs, sends,
                    polls, acked, outcome, sentLog >>

\* Step 4, expiry with budget left, the cache holds nothing newer and the
\* synchronous fetch fails: the attempt is spent without a send.
SubmitRetryFetchErr ==
    /\ sub_state = "Expired"
    /\ BudgetRemains(attempts)
    /\ CanRead
    /\ ~CacheIsPast(get_latest_blockhash, tx_token)
    /\ latest_blockhash' = AfterRead(latest_blockhash)
    /\ attempts' = attempts + 1
    /\ UNCHANGED << auxVars, height, ledgerVars, ctxVars, mutex,
                    pollVars, lastFetchedOk, fetched, mainVars, sub_state,
                    caller, tx_ixs, tx_token, prev_token, sends, polls, acked,
                    outcome, sentLog >>

\* The call has reached a terminal outcome.
Terminal ==
    \/ sub_state \in {"Confirmed", "Rejected", "TimedOut"}
    \/ sub_state = "Expired" /\ ~BudgetRemains(attempts)

\* ------------------------------------------------------ Miner::register
\* register.rs:9-19: return early when get_account is Ok, else submit.
Register ==
    /\ pc = "register"
    /\ \E r \in AccountRead(proofExists) :
          /\ last_read' = r
          /\ IF r = "Ok"
             THEN /\ pc' = "mine"
                  /\ UNCHANGED << stdout, subVars >>
             ELSE /\ stdout' = stdout \cup {"Generating challenge..."}
                  /\ Call(<< RegisterIx >>, "register")
    /\ UNCHANGED << beneficiary, busVars, height, ledgerVars, ctxVars, latest_blockhash, mutex,
                    pollVars, lastFetchedOk, fetched, amount >>

\* register.rs:17-19: .expect("Transaction failed") on the submitter's result;
\* the result of the lookup goes out of scope.
RegisterReturn ==
    /\ pc = "in_submit"
    /\ caller = "register"
    /\ Terminal
    /\ outcome' = sub_state
    /\ pc' = IF sub_state = "Confirmed" THEN "mine" ELSE "panicked"
    /\ last_read' = "none"
    /\ UNCHANGED << beneficiary, busVars, height, ledgerVars, ctxVars, latest_blockhash, mutex,
                    pollVars, lastFetchedOk, fetched, amount, stdout,
                    sub_state, caller, tx_ixs, tx_token, prev_token, attempts,
                    sends, polls, acked, sentLog >>

\* What the node answers to a read of a bus account: bytes that decode,
\* bytes that do not, or a Transport error (spec.md section 6).
BusRead == {"Ok", "Malformed", "Transport"}

\* busses.rs:19-22, Miner::get_bus: `?` returns the fetch error to the
\* caller; Bus::try_from_bytes(&data).unwrap() panics on bytes that do not
\* decode; otherwise Ok(bus).
AfterGetBus(r) ==
    CASE r = "Ok" -> "mine_submit"
      [] r = "Transport" -> "failed"
      [] r = "Malformed" -> "panicked"

\* The mine command after register looks a bus up before it submits.
GetBus ==
    /\ pc = "mine"
    /\ \E r \in BusRead :
          /\ last_read' = r
          /\ pc' = AfterGetBus(r)
    /\ UNCHANGED << beneficiary, busVars, height, ledgerVars, ctxVars,
                    latest_blockhash, mutex, pollVars, lastFetchedOk, fetched,
                    amount, stdout, subVars >>

\* The mine command after register: each found solution is submitted.
Mine ==
    /\ pc = "mine_submit"
    /\ Call(<< MineIx >>, "mine")
    /\ UNCHANGED << auxVars, height, ledgerVars, ctxVars, latest_blockhash, mutex,
                    pollVars, lastFetchedOk, fetched, amount, stdout >>

MineReturn ==
    /\ pc = "in_submit"
    /\ caller = "mine"
    /\ Terminal
    /\ outcome' = sub_state
    /\ pc' = "done"
    /\ UNCHANGED << auxVars, height, ledgerVars, ctxVars, latest_blockhash, mutex,
                    pollVars, lastFetchedOk, fetched, amount, stdout,
                    sub_state, caller, tx_ixs, tx_token, prev_token, attempts,
                    sends, polls, acked, sentLog >>

\* --------------------------------------------------------- Miner::claim
\* claim.rs:11: `amountf < 0.0`.
NothingToClaim(a) == Amountf(a) < 0

\* claim.rs:8-16: the proof account is read, the balance tested.
Claim ==
    /\ pc = "claim"
    /\ proofExists
    /\ amount' = claimable
    /\ IF NothingToClaim(claimable)
       THEN /\ stdout' = stdout \cup {"nothing to claim, exit now."}
            /\ pc' = "done"
       ELSE /\ stdout' = stdout \cup {"claimable rewards"}
            /\ pc' = "initialize_ata"
    /\ UNCHANGED << auxVars, height, ledgerVars, ctxVars, latest_blockhash, mutex,
                    pollVars, lastFetchedOk, fetched, subVars >>

\* utils::get_proof cannot produce the proof record (NotFound, Transport):
\* the command ends with the error and nothing is submitted.
ClaimProofErr ==
    /\ pc = "claim"
    /\ \E r \in AccountRead(proofExists) : r # "Ok"
    /\ pc' = "failed"
    /\ UNCHANGED << auxVars, height, ledgerVars, ctxVars, latest_blockhash, mutex,
                    pollVars, lastFetchedOk, fetched, amount, stdout, subVars >>

\* claim.rs:42-45: get_associated_token_address(&signer.pubkey(), &MINT_ADDRESS).
AtaAddress == "ata(signer, mint)"

\* claim.rs:48: `if let Ok(Some(_ata)) = ..get_token_account(..).await`.
AtaFoundNever(r) == FALSE
AtaFound(r) == r = "Ok"

\* claim.rs:37-64: the token account is looked up; unless the lookup is
\* Ok(Some(_)), the create transaction is submitted.
InitializeAta ==
    /\ pc = "initialize_ata"
    /\ \E r \in AccountRead(ataExists) :
          /\ last_read' = r
          /\ IF AtaFound(r)
             THEN /\ beneficiary' = AtaAddress
                  /\ pc' = "claim_submit"
                  /\ UNCHANGED << stdout, subVars >>
             ELSE /\ stdout' = stdout \cup {"Creating token account"}
                  /\ Call(<< CreateAtaIx >>, "initialize_ata")
                  /\ UNCHANGED beneficiary
    /\ UNCHANGED << busVars, height, ledgerVars, ctxVars, latest_blockhash, mutex,
                    pollVars, lastFetchedOk, fetched, amount >>

\* claim.rs:64-70: either result is printed and the address returned; the
\* result of the lookup goes out of scope.
InitializeAtaReturn ==
    /\ pc = "in_submit"
    /\ caller = "initialize_ata"
    /\ Terminal
    /\ outcome' = sub_state
    /\ stdout' = stdout \cup {IF sub_state = "Confirmed"
                              THEN "Created token account"
                              ELSE "Transaction failed"}
    /\ beneficiary' = AtaAddress
    /\ last_read' = "none"
    /\ pc' = "claim_submit"
    /\ UNCHANGED << busVars, height, ledgerVars, ctxVars, latest_blockhash, mutex,
                    pollVars, lastFetchedOk, fetched, amount, sub_state,
                    caller, tx_ixs, tx_token, prev_token, attempts, sends,
                    polls, acked, sentLog >>

\* claim.rs:19-25: the claim instructions are built and submitted.
ClaimSubmit ==
    /\ pc = "claim_submit"
    /\ stdout' = stdout \cup {"Submitting claim transaction..."}
    /\ Call(<< CuLimitIx(CU_LIMIT_CLAIM), CuPriceIx(priority_fee),
               ClaimIx(amount) >>, "claim")
    /\ UNCHANGED << auxVars, height, ledgerVars, ctxVars, latest_blockhash, mutex,
                    pollVars, lastFetchedOk, fetched, amount >>

\* claim.rs:26-34: the result is printed.
ClaimReturn ==
    /\ pc = "in_submit"
    /\ caller = "claim"
    /\ Terminal
    /\ outcome' = sub_state
    /\ stdout' = stdout \cup {IF sub_state = "Confirmed" THEN "Claimed" ELSE "Error"}
    /\ pc' = "done"
    /\ UNCHANGED << auxVars, height, ledgerVars, ctxVars, latest_blockhash, mutex,
                    pollVars, lastFetchedOk, fetched, amount, sub_state,
                    caller, tx_ixs, tx_token, prev_token, attempts, sends,
                    polls, acked, sentLog >>

\* -------------------------------------------------------- Miner::busses
\* busses.rs:10-15: a decoded bus is printed, an undecodable one is skipped.
BusOutputAll(out, i, decodes) == Append(out, i)
BusOutput(out, i, decodes) == IF decodes THEN Append(out, i) ELSE out

\* busses.rs:8-16, one iteration: the account data is fetched and decoded.
BussesNext ==
    /\ pc = "busses"
    /\ bus_idx <= NumBuses
    /\ \E decodes \in BOOLEAN :
          /\ busSeen' = Append(busSeen, decodes)
          /\ busOut' = BusOutput(busOut, bus_idx, decodes)
          /\ last_read' = IF decodes THEN "Ok" ELSE "Malformed"
    /\ bus_idx' = bus_idx + 1
    /\ pc' = IF bus_idx = NumBuses THEN "done" ELSE "busses"
    /\ UNCHANGED << beneficiary, height, ledgerVars, ctxVars, latest_blockhash,
                    mutex, pollVars, lastFetchedOk, fetched, amount, stdout,
                    subVars >>

\* busses.rs:9: get_account_data(..).await.unwrap() on a failed fetch.
BussesFetchErr ==
    /\ pc = "busses"
    /\ bus_idx <= NumBuses
    /\ last_read' = "Transport"
    /\ pc' = "panicked"
    /\ UNCHANGED << beneficiary, bus_idx, busSeen, busOut, height, ledgerVars,
                    ctxVars, latest_blockhash, mutex, pollVars, lastFetchedOk,
                    fetched, amount, stdout, subVars >>

\* ------------------------------------------------------------ the system
\* The steps of the refresh task.
PollStep ==
    PollWake \/ PollFetchOk \/ PollFetchErr \/ PollLock \/ PollPublish

\* The steps of a send_and_confirm call.
SubmitStep ==
    \/ SubmitSign \/ SubmitSend \/ SubmitRejected \/ SubmitAccepted
    \/ SubmitPollConfirmed \/ SubmitPollExpired \/ SubmitPollPending
    \/ SubmitRetry \/ SubmitRetryFetchErr

\* The steps of main and of the command handlers.
MainStep ==
    \/ NewOk \/ NewErr
    \/ Register \/ RegisterReturn \/ Mine \/ MineReturn
    \/ Claim \/ ClaimProofErr \/ InitializeAta \/ InitializeAtaReturn
    \/ ClaimSubmit \/ ClaimReturn
    \/ BussesNext \/ BussesFetchErr
    \/ GetBus

Next ==
    \/ Tick
    \/ NewOk
    \/ NewErr
    \/ PollWake
    \/ PollFetchOk
    \/ PollFetchErr
    \/ PollLock
    \/ PollPublish
    \/ SubmitSign
    \/ SubmitSend
    \/ SubmitRejected
    \/ SubmitAccepted
    \/ SubmitPollConfirmed
    \/ SubmitPollExpired
    \/ SubmitPollPending
    \/ SubmitRetry
    \/ SubmitRetryFetchErr
    \/ Register
    \/ RegisterReturn
    \/ Mine
    \/ MineReturn
    \/ Claim
    \/ ClaimProofErr
    \/ InitializeAta
    \/ InitializeAtaReturn
    \/ ClaimSubmit
    \/ ClaimReturn
    \/ BussesNext
    \/ BussesFetchErr
    \/ GetBus

Spec == Init /\ [][Next]_vars

\* The submission state machine reads neither the priority fee nor the
\* claimable balance: the fair specification follows it for one value of each.
FairInit ==
    /\ Init
    /\ (cmd # "busses" => priority_fee = MaxFee)
    /\ (cmd = "claim" => claimable = MaxBalance)

\* The tasks are scheduled by the tokio runtime: a step of main or of the
\* refresh task that stays possible is eventually taken; the refresh task
\* holds the mutex for one assignment and then sleeps, so a submitter that
\* needs the mutex again and again eventually gets it.
FairSpec ==
    /\ FairInit
    /\ [][Next]_vars
    /\ SF_vars(SubmitStep)
    /\ WF_vars(MainStep)
    /\ WF_vars(PollStep)

\* ------------------------------------------------------------- properties
InSubmit == pc = "in_submit"

\* C1: a claim invocation that read a claimable balance of 0 builds and sends
\* no transaction, reports "nothing to claim" and returns.
C1_ZeroBalanceSendsNothing ==
    (cmd = "claim" /\ amount = 0
        /\ pc \in {"initialize_ata", "in_submit", "claim_submit", "done"})
    => /\ sub_state = "Idle"
       /\ sentLog = << >>
       /\ (pc = "done" => "nothing to claim, exit now." \in stdout)

\* C2: register hands a transaction to the submitter only when the proof
\* account is absent from the ledger; with the account present it submits
\* nothing.
C2_RegisterOnlyWhenAbsent ==
    (InSubmit /\ caller = "register" /\ sub_state = "Built") => ~proofExists

\* C3: while the refresh loop has had one or more consecutive fetch failures,
\* read() returns the last successfully fetched token.
C3_FailuresKeepToken ==
    failures >= 1 => get_latest_blockhash = lastFetchedOk

C3_Witness ==
    /\ failures >= 2
    /\ get_latest_blockhash = lastFetchedOk
    /\ sub_state = "Signed"
    /\ tx_token = lastFetchedOk

\* C4: once Miner::new has succeeded the cache holds a set token, and every
\* token read from it (the cache's value, the token a first attempt is signed
\* with) is one that an earlier fetch from the node returned.
C4_ReadIsSetAndFetched ==
    pc \notin {"start", "init_failed"}
    => /\ (CanRead => get_latest_blockhash # Unset)
       /\ (CanRead => get_latest_blockhash \in fetched)
       /\ (sub_state \in {"Signed", "Sent"} => tx_token \in fetched)

C4_Witness ==
    /\ sub_state = "Signed"
    /\ attempts = 1
    /\ tx_token \in fetched
    /\ tx_token # NodeToken(1)

\* C5: after an expiry, the retry is signed with a token that differs from
\* the expired one.
C5_RetryUsesNewToken ==
    (sub_state \in {"Signed", "Sent"} /\ attempts >= 2) => tx_token # prev_token

\* The retry was signed while the cache still held the expired token.
C5_Witness ==
    /\ sub_state = "Signed"
    /\ attempts >= 2
    /\ prev_token # Unset
    /\ latest_blockhash = prev_token

\* C6: one call never begins more attempts, nor sends more transactions, than
\* the retry budget, and a call whose attempts all expired returns Expired
\* once the budget is spent.
C6_RetryBounded ==
    /\ attempts <= RetryBudget
    /\ sends <= attempts
    /\ (sub_state = "Expired" /\ ~InSubmit) => outcome = "Expired"
    /\ outcome = "Expired" => (sub_state = "Expired" /\ attempts = RetryBudget)

C6_Witness ==
    /\ outcome = "Expired"
    /\ sends = RetryBudget
    /\ ~InSubmit

\* C7: a send the node does not accept puts the call in Rejected; from there
\* the call sends nothing more, polls no more and does not retry: the only
\* thing it does is return Rejected.
C7_RejectedIsFinal ==
    /\ [](outcome = "Rejected" => sub_state = "Rejected")
    /\ [][(sub_state = "Sent" /\ ~acked /\ ~acked' /\ sub_state' # "Sent")
            => sub_state' = "Rejected"]_vars
    /\ [][(sub_state = "Rejected" /\ InSubmit)
            => /\ sub_state' = "Rejected"
               /\ UNCHANGED << sends, polls, attempts, acked, tx_token, sentLog >>
               /\ (pc' # pc => outcome' = "Rejected")]_vars

C7_Witness ==
    sub_state = "Rejected" /\ InSubmit /\ sends = 1

\* The transitions of the submission state machine.
Transitions ==
    { << "Built", "Signed" >>, << "Signed", "Sent" >>, << "Sent", "Confirmed" >>,
      << "Sent", "Rejected" >>, << "Sent", "Expired" >>, << "Sent", "TimedOut" >>,
      << "Expired", "Signed" >> }

\* C8: a call moves only along Built -> Signed -> Sent -> {Confirmed,
\* Rejected, Expired, TimedOut}; Expired goes back to Signed only with budget
\* left; the last unanswered poll of a valid token gives TimedOut; nothing
\* leaves Confirmed, Rejected or TimedOut; and every call returns one of the
\* four outcomes.
C8_StateMachine ==
    /\ [][\/ sub_state' = sub_state
          \/ ~InSubmit /\ sub_state' = "Built"
          \/ /\ InSubmit
             /\ << sub_state, sub_state' >> \in Transitions
             /\ (sub_state = "Expired" => attempts < RetryBudget)
             /\ (sub_state' = "TimedOut"
                    => polls = 1 /\ polls' = 0 /\ ~IsExpired(tx_token))]_vars
    /\ [][(InSubmit /\ sub_state = "Sent" /\ polls = 1 /\ polls' = 0)
            => sub_state' = "TimedOut"]_vars
    /\ [][(InSubmit /\ ~InSubmit')
            => /\ outcome' = sub_state
               /\ outcome' \in {"Confirmed", "Rejected", "Expired", "TimedOut"}]_vars
    /\ (InSubmit ~> ~InSubmit)

C8_Witness ==
    /\ ~InSubmit
    /\ outcome = "TimedOut"
    /\ sends = 1

\* C9: the amount of every submitted claim instruction is the raw claimable
\* balance read from the proof account.
C9_ClaimAmountIsBalance ==
    \A i \in 1..Len(sentLog) :
        \A j \in 1..Len(sentLog[i].ixs) :
            sentLog[i].ixs[j].op = "claim"
            => /\ sentLog[i].ixs[j].arg = amount
               /\ (sends = 1 /\ sub_state = "Sent" /\ caller = "claim")
                    => sentLog[i].ixs[j].arg = claimable

C9_Witness ==
    /\ caller = "claim"
    /\ sub_state = "Sent"
    /\ claimable > 0
    /\ HasOp(sentLog[Len(sentLog)].ixs, "claim")

IsFeeControl(ix) == ix.op \in {"set_compute_unit_limit", "set_compute_unit_price"}

\* C10: every transaction handed to the node begins with a compute-unit
\* limit, then a compute-unit price of the context's priority fee, and
\* carries no further fee-control instruction.
C10_FeeTaggedOnce ==
    \A i \in 1..Len(sentLog) :
        LET ixs == sentLog[i].ixs IN
        /\ Len(ixs) >= 3
        /\ ixs[1].op = "set_compute_unit_limit"
        /\ ixs[2] = CuPriceIx(priority_fee)
        /\ \A j \in 3..Len(ixs) : ~IsFeeControl(ixs[j])

\* The indices of the accounts that decoded, in the order they were read.
Decoded(seen) ==
    SelectSeq([i \in 1..Len(seen) |-> i], LAMBDA i : seen[i])

\* C11: the lines printed by the scan are exactly the decodable accounts read
\* so far, in address order; an account that does not decode is skipped
\* without a line and without ending the scan, and a scan that ends normally
\* has read every address.
C11_ScanSkipsUndecodable ==
    /\ [](/\ Len(busSeen) = bus_idx - 1
          /\ busOut = Decoded(busSeen)
          /\ (cmd = "busses" /\ pc = "done" => bus_idx = NumBuses + 1))
    /\ [][(bus_idx' # bus_idx /\ ~busSeen'[bus_idx])
            => /\ pc' = IF bus_idx = NumBuses THEN "done" ELSE "busses"
               /\ busOut' = busOut
               /\ stdout' = stdout]_vars

\* A finished scan in which an account failed to decode before one that did.
C11_Witness ==
    /\ cmd = "busses"
    /\ pc = "done"
    /\ \E i, j \in 1..NumBuses :
          /\ i < j
          /\ ~busSeen[i]
          /\ busSeen[j]
          /\ busOut[Len(busOut)] = j

\* C12: when the initial fetch of Miner::new fails, the program ends there:
\* main leaves its start without a fetched token only into the failed exit,
\* in that exit no refresh task exists, no cache was created, nothing was
\* read, printed or sent, and no step of any task follows it (no retry).
C12_InitFailureStartsNothing ==
    /\ [][(pc = "start" /\ pc' # "start" /\ fetched' = fetched)
            => pc' = "init_failed"]_vars
    /\ [](pc = "init_failed"
            => /\ poll_pc = "off"
               /\ mutex = "free"
               /\ latest_blockhash = Unset
               /\ fetched = {}
               /\ sub_state = "Idle"
               /\ sentLog = << >>
               /\ stdout = {}
               /\ last_read = "none"
               /\ bus_idx = 1)
    /\ [][pc # "init_failed"]_vars

\* The initial fetch has failed.
C12_Witness ==
    /\ pc = "init_failed"
    /\ fetched = {}

\* C13: whatever the interleaving of the refresh loop's store with the
\* readers, every token a reader has taken from the cache (the one the
\* current attempt is signed with, the one of the attempt before) is the
\* whole pair returned by one fetch, and a step that takes a token takes one
\* such pair while the refresh loop does not hold the lock.
C13_NoTornRead ==
    /\ [](tx_token \in fetched \cup {Unset})
    /\ [](prev_token \in fetched \cup {Unset})
    /\ [][(tx_token' # tx_token /\ tx_token' # Unset)
            => (mutex = "free" /\ tx_token' \in fetched')]_vars

\* A reader took a whole token, and the refresh loop is in the middle of
\* storing the next one: the cache holds the hash of one fetch and the height
\* of another while a submission is under way.
C13_Witness ==
    /\ mutex = "poll"
    /\ latest_blockhash \notin fetched
    /\ latest_blockhash.hash # latest_blockhash.until - Validity
    /\ sub_state \in {"Signed", "Sent"}
    /\ tx_token \in fetched

\* C14: whenever the refresh loop is suspended (not yet spawned, asleep, or
\* waiting for its fetch to return) it does not hold the mutex, so a read of
\* the cache can proceed; and the steps that suspend it or resume it from a
\* suspension leave the mutex free.
C14_NoLockWhileSuspended ==
    /\ [](poll_pc \in {"off", "sleep", "fetch"} => (mutex = "free" /\ CanRead))
    /\ [][poll_pc' \in {"sleep", "fetch"} => mutex' = "free"]_vars

\* The loop has published once (lock taken and released) and is waiting for
\* its next fetch while a submitter is about to read the cache.
C14_Witness ==
    /\ poll_pc = "fetch"
    /\ latest_blockhash # NodeToken(1)
    /\ sub_state = "Built"
    /\ CanRead

\* C15: once Miner::new has returned, a step that changes the cached token is
\* a step of the refresh loop (its store, begun or completed) and of nothing
\* else: the submission, the handler and what the handlers recorded are all
\* left as they were by that step.
C15_OnlyLoopWritesCache ==
    [][(pc # "start" /\ latest_blockhash' # latest_blockhash)
        => /\ poll_pc \in {"fetched", "locked"}
           /\ poll_pc' \in {"locked", "sleep"}
           /\ UNCHANGED << mainVars, subVars, auxVars >>]_vars

\* The expiry-retry path has signed with a token it fetched itself, newer
\* than the cached one, and the cache still holds the older token.
C15_Witness ==
    /\ sub_state = "Signed"
    /\ attempts >= 2
    /\ CanRead
    /\ tx_token.until > latest_blockhash.until
    /\ latest_blockhash \in fetched

\* C16: the refresh loop, once spawned, is never stopped by a fetch: a fetch
\* ends in the sleep of the next iteration (failure) or in the store
\* (success); the store puts the fetched token in the cache; between the end
\* of a store and the next successful fetch, across any failures, a read
\* returns the last token fetched; and while the process lives a failure is
\* followed by another fetch and a success by its publication.
C16_LoopSurvivesFailures ==
    /\ [](pc \notin {"start", "init_failed"} => poll_pc # "off")
    /\ [][(poll_pc = "fetch" /\ poll_pc' # "fetch")
            => poll_pc' \in {"sleep", "fetched"}]_vars
    /\ [][(poll_pc = "locked" /\ poll_pc' # "locked")
            => (latest_blockhash' = lastFetchedOk /\ poll_pc' = "sleep")]_vars
    /\ [](poll_pc \in {"sleep", "fetch"}
            => (CanRead /\ get_latest_blockhash = lastFetchedOk))
    /\ ((poll_pc = "sleep" /\ failures >= 1) ~> (poll_pc = "fetch" \/ Exited))
    /\ (poll_pc = "fetched"
          ~> ((poll_pc = "sleep" /\ get_latest_blockhash = lastFetchedOk)
              \/ Exited))

\* A fetch failed earlier, a later fetch succeeded with a newer token, and
\* that token has been published: a read returns it.
C16_Witness ==
    /\ "Failed to fetch latest blockhash" \in stdout
    /\ failures = 0
    /\ poll_pc = "sleep"
    /\ CanRead
    /\ get_latest_blockhash = lastFetchedOk
    /\ get_latest_blockhash # NodeToken(1)
    /\ sub_state = "Built"

\* The transactions sent so far for the create-token-account call.
CreateSends ==
    { i \in DOMAIN sentLog : sentLog[i].site = "initialize_ata" }

\* C17: initialize_ata is entered once, from claim; when its lookup finds the
\* account it goes on without starting a submission; otherwise it starts one
\* submission, of the create-associated-token-account instruction alone, and
\* no other step starts one in its name; every transaction sent for it is
\* that transaction, at least one has been sent when the submission was
\* started and has returned; and on both paths it returns the derived address.
C17_EnsureAccount ==
    /\ [][(pc' = "initialize_ata" /\ pc # "initialize_ata") => pc = "claim"]_vars
    /\ [][(pc = "initialize_ata" /\ pc' # pc /\ last_read' = "Ok")
            => (pc' = "claim_submit" /\ UNCHANGED subVars)]_vars
    /\ [][(pc = "initialize_ata" /\ pc' # pc /\ last_read' # "Ok")
            => /\ pc' = "in_submit"
               /\ sub_state' = "Built"
               /\ caller' = "initialize_ata"
               /\ tx_ixs' = Build(<< CreateAtaIx >>)
               /\ sentLog' = sentLog]_vars
    /\ [][(caller' = "initialize_ata" /\ caller # "initialize_ata")
            => pc = "initialize_ata"]_vars
    /\ [](\A i \in CreateSends : sentLog[i].ixs = Build(<< CreateAtaIx >>))
    /\ []((pc = "claim_submit" /\ "Creating token account" \in stdout)
            => CreateSends # {})
    /\ []((pc = "claim_submit" /\ "Creating token account" \notin stdout)
            => CreateSends = {})
    /\ [][(pc' = "claim_submit" /\ pc # "claim_submit")
            => beneficiary' = AtaAddress]_vars
    /\ [](beneficiary \in {"none", AtaAddress})

\* The lookup did not find the account, the create transaction was sent and
\* confirmed, and initialize_ata has returned the address.
C17_Witness ==
    /\ pc = "claim_submit"
    /\ beneficiary = AtaAddress
    /\ "Created token account" \in stdout
    /\ CreateSends # {}
    /\ ataExists

\* C18: a submission started by the existence check of register or of
\* initialize_ata follows a lookup that answered NotFound; after a Transport
\* error of the lookup the handler has the error and nothing is submitted.
C18_OnlyNotFoundCreates ==
    /\ (caller \in {"register", "initialize_ata"} /\ pc = "in_submit")
         => last_read = "NotFound"
    /\ last_read = "Transport" => pc \in {"failed", "panicked"}

\* The transactions sent so far for the claim call.
ClaimSends ==
    { i \in DOMAIN sentLog : sentLog[i].site = "claim" }

\* C19: the claim transaction is submitted only when initialize_ata has
\* returned and the destination token account exists; after a failed
\* create-token-account submission no claim transaction is submitted or sent.
C19_ClaimNeedsDestination ==
    /\ (caller = "claim" /\ pc = "in_submit")
         => (beneficiary = AtaAddress /\ ataExists)
    /\ "Transaction failed" \in stdout
         => (caller # "claim" /\ ClaimSends = {})

\* C20: a single-account lookup whose fetch fails or whose bytes do not
\* decode ends with an error in the hands of its caller: it returns no
\* record and does not abort the process.
C20_LookupSurfacesError ==
    [][(pc = "mine" /\ pc' # "mine" /\ last_read' \in {"Malformed", "Transport"})
        => pc' = "failed"]_vars

====
